---- MODULE Spec2Model ----
(***************************************************************************)
(* Model of the AI transaction system: the prompt-to-intent parser         *)
(* (scripts/ai_prompt_handler.py), the operation stubs                     *)
(* (scripts/transaction_handler.py) and the JSON income ledger             *)
(* (scripts/passive_income_generator.py).                                  *)
(*                                                                         *)
(* A Python str is a sequence of one-character strings.  A float is the    *)
(* decimal number it was parsed from, as a reduced fraction num/den with   *)
(* den a power of ten.                                                     *)
(***************************************************************************)
EXTENDS Integers, Sequences, FiniteSets, TLC

VARIABLES
    ledger,     \* the ledger file: absent, or the document it holds
    clock,      \* what datetime.now() returns next
    call,       \* the last call and its arguments
    ret,        \* how that call ended
    appended,   \* history: the amounts of the completed appends, in order
    text,       \* what the file's bytes are: a document, empty or garbled
    pc,         \* concurrent callers: where each is in its call
    local       \* concurrent callers: the log each holds in memory

\* the state of the concurrent callers
concVars == <<text, pc, local>>

vars == <<ledger, clock, call, ret, appended, text, pc, local>>

----------------------------------------------------------------------------
(* Characters and Python's str methods                                     *)

LowerLetters ==
    {"a","b","c","d","e","f","g","h","i","j","k","l","m",
     "n","o","p","q","r","s","t","u","v","w","x","y","z"}

UpperLetters ==
    {"A","B","C","D","E","F","G","H","I","J","K","L","M",
     "N","O","P","Q","R","S","T","U","V","W","X","Y","Z"}

Digits == {"0","1","2","3","4","5","6","7","8","9"}

\* str.lower() on one character
LowerChar(c) ==
    CASE c = "A" -> "a" [] c = "B" -> "b" [] c = "C" -> "c" [] c = "D" -> "d"
      [] c = "E" -> "e" [] c = "F" -> "f" [] c = "G" -> "g" [] c = "H" -> "h"
      [] c = "I" -> "i" [] c = "J" -> "j" [] c = "K" -> "k" [] c = "L" -> "l"
      [] c = "M" -> "m" [] c = "N" -> "n" [] c = "O" -> "o" [] c = "P" -> "p"
      [] c = "Q" -> "q" [] c = "R" -> "r" [] c = "S" -> "s" [] c = "T" -> "t"
      [] c = "U" -> "u" [] c = "V" -> "v" [] c = "W" -> "w" [] c = "X" -> "x"
      [] c = "Y" -> "y" [] c = "Z" -> "z" [] OTHER -> c

\* prompt_text.lower()
Lower(s) == [i \in 1..Len(s) |-> LowerChar(s[i])]

\* s[i-1:j] of Python, 1-based and inclusive here
Slice(s, i, j) == [k \in 1..(j - i + 1) |-> s[i + k - 1]]

\* s.startswith(lit, pos-1)
HasAt(s, pos, lit) ==
    /\ pos + Len(lit) - 1 <= Len(s)
    /\ \A k \in 1..Len(lit) : s[pos + k - 1] = lit[k]

\* `word in s` of Python: substring containment
Contains(s, word) == \E p \in 1..(Len(s) + 1) : HasAt(s, p, word)

----------------------------------------------------------------------------
(* The subset of Python's re used by the patterns                          *)

\* \s, \w, [\d.] and . of the re module
InClass(cls, c) ==
    CASE cls = "s"   -> c \in {" ", "\t", "\n", "\r", "\f"}
      [] cls = "w"   -> c \in LowerLetters \cup UpperLetters \cup Digits \cup {"_"}
      [] cls = "d."  -> c \in Digits \cup {"."}
      [] cls = "any" -> c # "\n"

\* pattern elements: a literal, a greedy one-or-more class (captured or
\* not), a greedy .*
Lit(s)   == [t |-> "lit",  s |-> s,    cls |-> "",     min |-> 0, cap |-> FALSE]
Ws       == [t |-> "rep",  s |-> <<>>, cls |-> "s",    min |-> 1, cap |-> FALSE]
Word     == [t |-> "rep",  s |-> <<>>, cls |-> "w",    min |-> 1, cap |-> TRUE]
Num      == [t |-> "rep",  s |-> <<>>, cls |-> "d.",   min |-> 1, cap |-> TRUE]
DotStar  == [t |-> "rep",  s |-> <<>>, cls |-> "any",  min |-> 0, cap |-> FALSE]

NoMatch == [ok |-> FALSE, groups |-> <<>>]

SetMin(S) == CHOOSE x \in S : \A y \in S : x <= y

\* length of the longest run of characters of cls in s from pos
Run(s, pos, cls) ==
    LET stops == {q \in pos..Len(s) : ~InClass(cls, s[q])}
    IN  IF stops = {} THEN Len(s) - pos + 1 ELSE SetMin(stops) - pos

\* The backtracking matcher: elements k.. of pat against s from pos.  A
\* greedy repetition tries its longest run first and gives characters back
\* one at a time until the rest of the pattern matches: it takes the
\* greatest length after which the rest matches.
RECURSIVE MatchFrom(_, _, _, _)
TryRep(pat, k, s, pos, longest) ==
    LET tries == {<<n, MatchFrom(pat, k + 1, s, pos + n)>> :
                     n \in pat[k].min..longest}
        good == {t \in tries : t[2].ok}
    IN  IF good = {} THEN NoMatch
        ELSE LET t == CHOOSE t \in good : \A u \in good : t[1] >= u[1]
             IN  [ok |-> TRUE,
                  groups |-> IF pat[k].cap
                             THEN <<Slice(s, pos, pos + t[1] - 1)>>
                                  \o t[2].groups
                             ELSE t[2].groups]

MatchFrom(pat, k, s, pos) ==
    IF k > Len(pat) THEN [ok |-> TRUE, groups |-> <<>>]
    ELSE IF pat[k].t = "lit"
         THEN IF HasAt(s, pos, pat[k].s)
              THEN MatchFrom(pat, k + 1, s, pos + Len(pat[k].s))
              ELSE NoMatch
         ELSE TryRep(pat, k, s, pos, Run(s, pos, pat[k].cls))

\* re.search(pattern, s): the match at the leftmost start position
Search(pat, s) ==
    LET tries == {<<p, MatchFrom(pat, 1, s, p)>> : p \in 1..(Len(s) + 1)}
        good == {t \in tries : t[2].ok}
    IN  IF good = {} THEN NoMatch
        ELSE (CHOOSE t \in good : \A u \in good : t[1] <= u[1])[2]

----------------------------------------------------------------------------
(* float(str) on the strings [\d.]+ and \w+ can capture                    *)

DigitVal(c) ==
    CASE c = "0" -> 0 [] c = "1" -> 1 [] c = "2" -> 2 [] c = "3" -> 3
      [] c = "4" -> 4 [] c = "5" -> 5 [] c = "6" -> 6 [] c = "7" -> 7
      [] c = "8" -> 8 [] c = "9" -> 9

RECURSIVE Reduce(_, _)
Reduce(num, den) ==
    IF den > 1 /\ num % 10 = 0 THEN Reduce(num \div 10, den \div 10)
    ELSE [num |-> num, den |-> den]

Zero == Reduce(0, 1)

\* digits and dots only, at most one dot, at least one digit
ValidFloat(s) ==
    /\ \A i \in 1..Len(s) : s[i] \in Digits \cup {"."}
    /\ Cardinality({i \in 1..Len(s) : s[i] = "."}) <= 1
    /\ \E i \in 1..Len(s) : s[i] \in Digits

RECURSIVE Decimal(_, _, _, _, _)
Decimal(s, i, num, den, frac) ==
    IF i > Len(s) THEN Reduce(num, den)
    ELSE IF s[i] = "." THEN Decimal(s, i + 1, num, den, TRUE)
    ELSE Decimal(s, i + 1, num * 10 + DigitVal(s[i]),
                 IF frac THEN den * 10 ELSE den, frac)

\* float(s); callers test ValidFloat first, float raises ValueError
\* otherwise.  (float also reads inf, nan, exponents and digit-separating
\* underscores; no prompt drawn below holds one.)
Float(s) == Decimal(s, 1, 0, 1, FALSE)

Max(a, b) == IF a >= b THEN a ELSE b

\* a + b on floats
Add(a, b) ==
    LET d == Max(a.den, b.den)
    IN  Reduce(a.num * (d \div a.den) + b.num * (d \div b.den), d)

----------------------------------------------------------------------------
(* parse_ai_prompt                                                         *)

\* the words the patterns and keyword lists are made of
s_transfer == <<"t","r","a","n","s","f","e","r">>
s_send == <<"s","e","n","d">>
s_pay == <<"p","a","y">>
s_sol == <<"s","o","l">>
s_from == <<"f","r","o","m">>
s_to == <<"t","o">>
s_balance == <<"b","a","l","a","n","c","e">>
s_of == <<"o","f">>
s_what == <<"w","h","a","t">>
s_check == <<"c","h","e","c","k">>
s_how == <<"h","o","w">>
s_much == <<"m","u","c","h">>
s_stake == <<"s","t","a","k","e">>
s_create == <<"c","r","e","a","t","e">>
s_passive == <<"p","a","s","s","i","v","e">>
s_income == <<"i","n","c","o","m","e">>
s_with == <<"w","i","t","h">>
s_start == <<"s","t","a","r","t">>
s_staking == <<"s","t","a","k","i","n","g">>
s_report == <<"r","e","p","o","r","t">>
s_earnings == <<"e","a","r","n","i","n","g","s">>
s_revenue == <<"r","e","v","e","n","u","e">>
s_total == <<"t","o","t","a","l">>
s_generated == <<"g","e","n","e","r","a","t","e","d">>

\* Python's None: no str, which is a sequence of one-character strings
None == <<"None">>

\* a value's truth as `or` tests it
Truthy(v) == v # None /\ v # <<>>

\* how a call ended: with a value, or with an exception
Return(v) == [state |-> "returned", exc |-> "", value |-> v]
Raise(e)  == [state |-> "raised",   exc |-> e,  value |-> <<>>]

transfer_patterns ==
    << <<Lit(s_transfer), Ws, Num, Ws, Lit(s_sol), Ws, Lit(s_from), Ws, Word,
         Ws, Lit(s_to), Ws, Word>>,
       <<Lit(s_send), Ws, Num, Ws, Lit(s_sol), Ws, Lit(s_from), Ws, Word,
         Ws, Lit(s_to), Ws, Word>>,
       <<Lit(s_pay), Ws, Word, Ws, Num, Ws, Lit(s_sol), Ws, Lit(s_from), Ws,
         Word>> >>

balance_patterns ==
    << <<Lit(s_balance), Ws, Lit(s_of), Ws, Word>>,
       <<Lit(s_what), DotStar, Lit(s_balance), DotStar, Word>>,
       <<Lit(s_check), Ws, Lit(s_balance), Ws, Word>>,
       <<Lit(s_how), Ws, Lit(s_much), DotStar, Word>> >>

\* the bare 'stake <amount> sol' pattern tried before the one with a wallet
staking_patterns_swapped ==
    << <<Lit(s_stake), Ws, Num, Ws, Lit(s_sol)>>,
       <<Lit(s_stake), Ws, Num, Ws, Lit(s_sol), Ws, Lit(s_from), Ws, Word>>,
       <<Lit(s_create), DotStar, Lit(s_passive), DotStar, Lit(s_income),
         DotStar, Lit(s_with), Ws, Num, Ws, Lit(s_sol)>>,
       <<Lit(s_start), Ws, Lit(s_staking), Ws, Num, Ws, Lit(s_sol)>> >>

staking_patterns ==
    << <<Lit(s_stake), Ws, Num, Ws, Lit(s_sol), Ws, Lit(s_from), Ws, Word>>,
       <<Lit(s_stake), Ws, Num, Ws, Lit(s_sol)>>,
       <<Lit(s_create), DotStar, Lit(s_passive), DotStar, Lit(s_income),
         DotStar, Lit(s_with), Ws, Num, Ws, Lit(s_sol)>>,
       <<Lit(s_start), Ws, Lit(s_staking), Ws, Num, Ws, Lit(s_sol)>> >>

report_words  == {s_report, s_income, s_earnings, s_revenue}
passive_words == {s_passive, s_total, s_generated}

\* index of the first pattern of pats that re.search finds in s, 0 if none
RECURSIVE FirstMatch(_, _, _)
FirstMatch(pats, s, i) ==
    IF i > Len(pats) THEN 0
    ELSE IF Search(pats[i], s).ok THEN i ELSE FirstMatch(pats, s, i + 1)

\* the transfer loop: the first matching pattern returns, its three groups
\* unpacked as amount, from_wallet, to_wallet
TransferIntent(low) ==
    LET i == FirstMatch(transfer_patterns, low, 1)
        g == Search(transfer_patterns[i], low).groups
        amount      == g[1]
        from_wallet == g[2]
        to_wallet   == g[3]
    IN  IF ValidFloat(amount)
        THEN Return([operation |-> "transfer",
                     parameters |-> [from_wallet |-> from_wallet,
                                     to_wallet |-> to_wallet,
                                     amount |-> Float(amount)]])
        ELSE Raise("ValueError")

BalanceIntent(low) ==
    LET i == FirstMatch(balance_patterns, low, 1)
        wallet == Search(balance_patterns[i], low).groups[1]
    IN  Return([operation |-> "query_balance",
                parameters |-> [wallet_address |-> wallet]])

StakeIntent(low) ==
    LET i == FirstMatch(staking_patterns, low, 1)
        groups == Search(staking_patterns[i], low).groups
        amount == groups[1]
        wallet == IF Len(groups) > 1 THEN groups[2] ELSE None
    IN  IF ValidFloat(amount)
        THEN Return([operation |-> "stake",
                     parameters |-> [amount |-> Float(amount),
                                     wallet |-> wallet]])
        ELSE Raise("ValueError")

IsIncomeReport(low) ==
    /\ \E word \in report_words : Contains(low, word)
    /\ \E word \in passive_words : Contains(low, word)

parse_ai_prompt(prompt_text) ==
    LET prompt_text_lower == Lower(prompt_text)
    IN  IF FirstMatch(transfer_patterns, prompt_text_lower, 1) # 0
        THEN TransferIntent(prompt_text_lower)
        ELSE IF FirstMatch(balance_patterns, prompt_text_lower, 1) # 0
        THEN BalanceIntent(prompt_text_lower)
        ELSE IF FirstMatch(staking_patterns, prompt_text_lower, 1) # 0
        THEN StakeIntent(prompt_text_lower)
        ELSE IF IsIncomeReport(prompt_text_lower)
        THEN Return([operation |-> "income_report", parameters |-> <<>>])
        ELSE Return([operation |-> "unknown", parameters |-> <<>>,
                     original_prompt |-> prompt_text])

----------------------------------------------------------------------------
(* The prompts drawn as inputs                                             *)

w_Transfer == <<"T","r","a","n","s","f","e","r">>
w_Stake == <<"S","t","a","k","e">>
w_What == <<"W","h","a","t">>
w_Show == <<"S","h","o","w">>
w_SOL == <<"S","O","L">>
w_is == <<"i","s">>
w_the == <<"t","h","e">>
w_my == <<"m","y">>
w_for == <<"f","o","r">>
w_does == <<"d","o","e","s">>
w_have == <<"h","a","v","e">>
w_generate == <<"g","e","n","e","r","a","t","e">>
w_wallet == <<"w","a","l","l","e","t">>
w_hello == <<"h","e","l","l","o">>
w_totally == <<"t","o","t","a","l","l","y">>
w_reporter == <<"r","e","p","o","r","t","e","r">>
w_abc == <<"a","b","c">>
w_XYZ == <<"X","Y","Z">>
w_n42 == <<"4","2">>
w_a5 == <<"5">>
w_a0_5 == <<"0",".","5">>
w_a10 == <<"1","0">>
w_a10_0 == <<"1","0",".","0">>
w_dot == <<".">>
w_a1_2_3 == <<"1",".","2",".","3">>

\* words joined by single blanks
RECURSIVE JoinWords(_)
JoinWords(ws) ==
    IF Len(ws) = 0 THEN <<>>
    ELSE IF Len(ws) = 1 THEN ws[1]
    ELSE ws[1] \o <<" ">> \o JoinWords(Tail(ws))

\* longest free-word prompt
MaxFreeWords == 2

Amounts == {w_a5, w_a0_5, w_a10, w_a10_0, w_dot, w_a1_2_3}
Wallets == {w_abc, w_XYZ, w_n42}
FreeWords == {w_Show, s_passive, s_income, s_report, s_total, w_totally,
              w_reporter, w_hello, s_generated, s_earnings}
Prefixes == {<<>>, <<"p","l","e","a","s","e"," ">>,
             <<"h","o","w"," ","m","u","c","h"," ">>,
             <<"h","o","w"," ","m","u","c","h","\n">>}
Suffixes == {<<>>, <<"?">>, <<" ","t","o","t","a","l"," ","i","n","c","o","m","e">>}

TransferKinds == {"transfer", "send", "pay"}
BalanceKinds  == {"balance_of", "what_balance", "check_balance", "how_much"}
StakeKinds    == {"stake_from", "stake", "create_passive", "start_staking"}

Form(kind, amount, a, b, pre, suf, free) ==
    [kind |-> kind, amount |-> amount, a |-> a, b |-> b, pre |-> pre,
     suf |-> suf, free |-> free]

FreeSeqs == UNION {[1..n -> FreeWords] : n \in 0..MaxFreeWords}

\* the phrasings of the help payload, a number put for the amount X and
\* identifiers for the wallets A, B and X
HelpForms ==
    {Form("help_transfer", m, a, b, <<>>, <<>>, <<>>) :
        m \in {w_a5, w_a0_5}, a \in Wallets, b \in Wallets}
    \cup
    {Form("help_balance", <<>>, a, <<>>, <<>>, <<"?">>, <<>>) : a \in Wallets}
    \cup
    {Form("stake", m, <<>>, <<>>, <<>>, <<>>, <<>>) : m \in {w_a5, w_a10}}
    \cup
    {Form("help_report", <<>>, <<>>, <<>>, <<>>, <<>>, <<>>)}

Forms ==
    HelpForms
    \cup
    {Form(k, m, a, b, pre, suf, <<>>) :
        k \in TransferKinds, m \in Amounts \ {w_a10, w_a10_0}, a \in Wallets,
        b \in Wallets, pre \in {<<>>}, suf \in {<<>>, <<"?">>}}
    \cup
    {Form(k, <<>>, a, <<>>, pre, suf, <<>>) :
        k \in BalanceKinds, a \in Wallets, pre \in Prefixes, suf \in Suffixes}
    \cup
    {Form(k, m, a, <<>>, pre, suf, <<>>) :
        k \in StakeKinds, m \in Amounts, a \in Wallets \ {w_n42},
        pre \in Prefixes, suf \in Suffixes}
    \cup
    {Form("free", <<>>, <<>>, <<>>, pre, suf, f) :
        f \in FreeSeqs, pre \in Prefixes, suf \in Suffixes}

Core(f) ==
    CASE f.kind = "transfer" ->
            <<w_Transfer, f.amount, w_SOL, s_from, f.a, s_to, f.b>>
      [] f.kind = "send" ->
            <<s_send, f.amount, s_sol, s_from, f.a, s_to, f.b>>
      [] f.kind = "pay" ->
            <<s_pay, f.b, f.amount, s_sol, s_from, f.a>>
      [] f.kind = "balance_of" ->
            <<w_What, w_is, w_the, s_balance, s_of, f.a>>
      [] f.kind = "what_balance" ->
            <<s_what, w_is, w_my, s_balance, w_for, f.a>>
      [] f.kind = "check_balance" ->
            <<s_check, s_balance, f.a>>
      [] f.kind = "how_much" ->
            <<s_how, s_much, w_does, f.a, w_have>>
      [] f.kind = "stake_from" ->
            <<s_stake, f.amount, s_sol, s_from, f.a>>
      [] f.kind = "stake" ->
            <<w_Stake, f.amount, w_SOL, s_to, w_generate, s_passive, s_income>>
      [] f.kind = "create_passive" ->
            <<s_create, s_passive, s_income, s_with, f.amount, s_sol>>
      [] f.kind = "start_staking" ->
            <<s_start, s_staking, f.amount, s_sol>>
      [] f.kind = "free" -> f.free
      [] f.kind = "help_transfer" ->
            <<w_Transfer, f.amount, w_SOL, s_from, w_wallet, f.a, s_to,
              w_wallet, f.b>>
      [] f.kind = "help_balance" ->
            <<w_What, w_is, w_the, s_balance, s_of, w_wallet, f.a>>
      [] f.kind = "help_report" ->
            <<w_Show, s_passive, s_income, s_report>>

Prompt(f) == f.pre \o JoinWords(Core(f)) \o f.suf

----------------------------------------------------------------------------
(* Configuration and credentials                                           *)

\* config/system-config.json as load_config reads it
config ==
    [devVaultWallet |-> <<"v","a","u","l","t">>,
     feeStructure |-> [passiveIncomePercentage |-> 100]]

REQUIRED          == <<"R","E","Q","U","I","R","E","D">>
REQUIRED_WALLET   == <<"R","E","Q","U","I","R","E","D","_","W","A","L","L","E","T">>
DEFAULT_VALIDATOR == <<"D","E","F","A","U","L","T","_","V","A","L","I","D","A","T","O","R">>
devnet            == <<"d","e","v","n","e","t">>
w_bob             == <<"b","o","b">>
w_mainnet         == <<"m","a","i","n","n","e","t">>

\* The credentials bag: every use is `credentials.get(k, d) if credentials
\* else d`, so None and {} both read as every option absent (None here).
NoCredentials ==
    [private_key |-> None, network |-> None, validator |-> None,
     wallet |-> None]

Credentials ==
    {NoCredentials,
     [NoCredentials EXCEPT !.wallet = w_bob, !.network = w_mainnet]}

\* credentials.get(key, default) if credentials else default
CredGet(credentials, key, default) ==
    IF credentials[key] # None THEN credentials[key] ELSE default

\* d.get(key, default) on a dict
Get(d, key, default) == IF key \in DOMAIN d THEN d[key] ELSE default

\* amount * (pct / 100)
Percent(amount, pct) == Reduce(amount.num * pct, amount.den * 100)

----------------------------------------------------------------------------
(* The income ledger: data/passive_income_log.json                         *)

\* seq[-n:]
LastN(seq, n) == SubSeq(seq, Max(1, Len(seq) - n + 1), Len(seq))

\* the slice bound of recent_transactions
RecentLimit == 10

Absent == [exists |-> FALSE, transactions |-> <<>>, total_income |-> Zero]

\* load the existing log or create a new one
load_log(file) ==
    IF file.exists
    THEN [transactions |-> file.transactions,
          total_income |-> file.total_income]
    ELSE [transactions |-> <<>>, total_income |-> Zero]

\* the total overwritten by the record's amount instead of increased
add_transaction_overwrite(log, transaction_data, now) ==
    LET stamped == [timestamp |-> now] @@ transaction_data
    IN  [transactions |-> Append(log.transactions, stamped),
         total_income |-> Get(stamped, "amount", Zero)]

\* the record inserted at the head of the list instead of appended
add_transaction_prepend(log, transaction_data, now) ==
    LET stamped == [timestamp |-> now] @@ transaction_data
    IN  [transactions |-> <<stamped>> \o log.transactions,
         total_income |-> Add(log.total_income,
                              Get(stamped, "amount", Zero))]

\* stamp the record, append it, add its amount
add_transaction(log, transaction_data, now) ==
    LET stamped == [timestamp |-> now] @@ transaction_data
    IN  [transactions |-> Append(log.transactions, stamped),
         total_income |-> Add(log.total_income,
                              Get(stamped, "amount", Zero))]

\* json.dump of the whole document over the file
save_log(log) ==
    [exists |-> TRUE, transactions |-> log.transactions,
     total_income |-> log.total_income]

\* the file log_income_transaction leaves
log_income_transaction(file, transaction_data, now) ==
    save_log(add_transaction(load_log(file), transaction_data, now))

\* the stub's own status logged in place of 'initiated'
stake_for_rewards_status(file, wallet, amount, validator, private_key, network, now) ==
    LET dev_vault == config.devVaultWallet
    IN  [result |-> [status |-> "success", operation |-> "stake_for_rewards",
                     strategy |-> "staking", wallet |-> wallet,
                     amount |-> amount, validator |-> validator,
                     dev_vault |-> dev_vault, network |-> network],
         file |-> log_income_transaction(file,
                     [type |-> "staking", amount |-> amount,
                      wallet |-> wallet, dev_vault |-> dev_vault,
                      status |-> "success"], now)]

\* the staking stub: its result and the file it leaves
stake_for_rewards(file, wallet, amount, validator, private_key, network, now) ==
    LET dev_vault == config.devVaultWallet
    IN  [result |-> [status |-> "success", operation |-> "stake_for_rewards",
                     strategy |-> "staking", wallet |-> wallet,
                     amount |-> amount, validator |-> validator,
                     dev_vault |-> dev_vault, network |-> network],
         file |-> log_income_transaction(file,
                     [type |-> "staking", amount |-> amount,
                      wallet |-> wallet, dev_vault |-> dev_vault,
                      status |-> "initiated"], now)]

create_token_account_for_fees(wallet, token_mint, private_key, network) ==
    [status |-> "success", operation |-> "create_token_account",
     strategy |-> "token_fees", wallet |-> wallet, token_mint |-> token_mint,
     dev_vault |-> config.devVaultWallet, network |-> network]

\* sum(1 for t in transactions if t.get('type') == type)
CountType(transactions, type) ==
    Cardinality({i \in 1..Len(transactions) :
                    Get(transactions[i], "type", "None") = type})

\* only the records that have a 'type', of another value, counted
CountOther_typed(transactions, types) ==
    Cardinality({i \in 1..Len(transactions) :
                    /\ "type" \in DOMAIN transactions[i]
                    /\ transactions[i].type \notin types})

\* sum(1 for t in transactions if t.get('type') not in types)
CountOther(transactions, types) ==
    Cardinality({i \in 1..Len(transactions) :
                    Get(transactions[i], "type", "None") \notin types})

get_income_report(file) ==
    IF ~file.exists
    THEN [total_income |-> Zero, transaction_count |-> 0,
          transactions |-> <<>>]
    ELSE LET log == load_log(file)
         IN  [total_income |-> log.total_income,
              transaction_count |-> Len(log.transactions),
              recent_transactions |-> LastN(log.transactions, RecentLimit),
              strategies |->
                 [staking |-> CountType(log.transactions, "staking"),
                  token_fees |-> CountType(log.transactions, "token_fees"),
                  other |-> CountOther(log.transactions,
                                       {"staking", "token_fees"})]]

----------------------------------------------------------------------------
(* The transaction stubs                                                   *)

transfer_sol(from_wallet, to_wallet, amount, private_key, network) ==
    [status |-> "success", operation |-> "transfer_sol",
     from |-> from_wallet, to |-> to_wallet, amount |-> amount,
     dev_vault |-> config.devVaultWallet,
     dev_vault_amount |->
        Percent(amount, config.feeStructure.passiveIncomePercentage),
     network |-> network]

query_balance(wallet_address, network) ==
    [status |-> "success", operation |-> "query_balance",
     wallet |-> wallet_address, network |-> network]

----------------------------------------------------------------------------
(* process_ai_request: the outcome of the call and the file it leaves      *)

Outcome(r, file) == [ret |-> r, file |-> file]

\* the transfer's fee logged as income
process_transfer_logged(file, params, credentials) ==
    LET private_key == CredGet(credentials, "private_key", REQUIRED)
        network == CredGet(credentials, "network", devnet)
        result == transfer_sol(params.from_wallet, params.to_wallet,
                               params.amount, private_key, network)
    IN  Outcome(Return([success |-> TRUE, operation |-> "transfer",
                        details |-> result]),
                log_income_transaction(file,
                    [type |-> "transfer", amount |-> result.dev_vault_amount],
                    0))

process_transfer(file, params, credentials) ==
    LET private_key == CredGet(credentials, "private_key", REQUIRED)
        network == CredGet(credentials, "network", devnet)
        result == transfer_sol(params.from_wallet, params.to_wallet,
                               params.amount, private_key, network)
    IN  Outcome(Return([success |-> TRUE, operation |-> "transfer",
                        details |-> result]), file)

process_query_balance(file, params, credentials) ==
    LET network == CredGet(credentials, "network", devnet)
        result == query_balance(params.wallet_address, network)
    IN  Outcome(Return([success |-> TRUE, operation |-> "query_balance",
                        details |-> result]), file)

process_stake(file, params, credentials, now) ==
    LET private_key == CredGet(credentials, "private_key", REQUIRED)
        validator == CredGet(credentials, "validator", DEFAULT_VALIDATOR)
        network == CredGet(credentials, "network", devnet)
        wallet == IF Truthy(params.wallet) THEN params.wallet
                  ELSE IF Truthy(credentials.wallet) THEN credentials.wallet
                  ELSE REQUIRED_WALLET
        staked == stake_for_rewards(file, wallet, params.amount, validator,
                                    private_key, network, now)
    IN  Outcome(Return([success |-> TRUE, operation |-> "stake",
                        details |-> staked.result]), staked.file)

process_income_report(file) ==
    Outcome(Return([success |-> TRUE, operation |-> "income_report",
                    details |-> get_income_report(file)]), file)

process_unknown(file) ==
    Outcome(Return([success |-> FALSE, operation |-> "unknown",
                    details |-> <<>>]), file)

process_ai_request(file, prompt_text, credentials, now) ==
    LET parsed == parse_ai_prompt(prompt_text)
        intent == parsed.value
    IN  IF parsed.state = "raised" THEN Outcome(parsed, file)
        ELSE IF intent.operation = "transfer"
        THEN process_transfer(file, intent.parameters, credentials)
        ELSE IF intent.operation = "query_balance"
        THEN process_query_balance(file, intent.parameters, credentials)
        ELSE IF intent.operation = "stake"
        THEN process_stake(file, intent.parameters, credentials, now)
        ELSE IF intent.operation = "income_report"
        THEN process_income_report(file)
        ELSE process_unknown(file)

----------------------------------------------------------------------------
(* One call of parse_ai_prompt on a drawn prompt                           *)

Pending == [state |-> "pending", exc |-> "", value |-> <<>>]

InitParse ==
    /\ ledger = Absent
    /\ clock = 1
    /\ \E f \in Forms :
          call = [op |-> "parse_ai_prompt", form |-> f, prompt |-> Prompt(f)]
    /\ ret = Pending
    /\ appended = <<>>
    /\ text = "document" /\ pc = <<>> /\ local = <<>>

Parse ==
    /\ call.op = "parse_ai_prompt"
    /\ ret = Pending
    /\ ret' = parse_ai_prompt(call.prompt)
    /\ UNCHANGED <<ledger, clock, call, appended>>
    /\ UNCHANGED concVars

NextParse == Parse

SpecParse == InitParse /\ [][NextParse]_vars

----------------------------------------------------------------------------
(* The system: calls executed one at a time                                *)

\* longest ledger
MaxTx == 12
\* ledger length up to which every input is drawn
MaxVaried == 2

StakeForm    == Form("stake", w_a10, <<>>, <<>>, <<>>, <<>>, <<>>)
ReportForm   == Form("free", <<>>, <<>>, <<>>, <<>>, <<>>,
                     <<w_Show, s_passive, s_income, s_report>>)
TransferForm == Form("transfer", w_a0_5, w_abc, w_XYZ, <<>>, <<>>, <<>>)

\* the prompts drawn whatever the ledger's length
LongRunForms == {StakeForm, ReportForm, TransferForm}

SystemForms ==
    LongRunForms \cup
    {Form("pay", w_a5, w_abc, w_XYZ, <<>>, <<>>, <<>>),
     Form("balance_of", <<>>, w_XYZ, <<>>, <<>>, <<"?">>, <<>>),
     Form("stake_from", w_a5, w_abc, <<>>, <<>>, <<>>, <<>>),
     Form("stake", w_a1_2_3, <<>>, <<>>, <<>>, <<>>, <<>>),
     Form("free", <<>>, <<>>, <<>>, <<>>, <<>>, <<w_hello>>)}

\* the records direct callers of log_income_transaction pass
LogRecords ==
    {[type |-> "token_fees", amount |-> Float(w_a0_5), wallet |-> w_abc],
     [status |-> "manual"]}

Varied == Len(ledger.transactions) < MaxVaried
Room   == Len(ledger.transactions) < MaxTx

Init ==
    /\ ledger = Absent
    /\ clock = 1
    /\ call = [op |-> "none"]
    /\ ret = Pending
    /\ appended = <<>>
    /\ text = "document" /\ pc = <<>> /\ local = <<>>

ProcessAIRequest ==
    \E f \in IF Varied THEN SystemForms ELSE LongRunForms,
       c \in IF Varied THEN Credentials ELSE {NoCredentials} :
        /\ Room
        /\ \E out \in {process_ai_request(ledger, Prompt(f), c, clock)} :
              /\ call' = [op |-> "process_ai_request", prompt |-> Prompt(f),
                          credentials |-> c]
              /\ ret' = out.ret
              /\ ledger' = out.file
              /\ IF out.ret.state = "returned"
                    /\ out.ret.value.operation = "stake"
                 THEN /\ clock' = clock + 1
                      /\ appended' =
                            Append(appended, out.ret.value.details.amount)
                 ELSE UNCHANGED <<clock, appended>>
        /\ UNCHANGED concVars

LogIncomeTransaction ==
    \E data \in LogRecords :
        /\ Varied
        /\ call' = [op |-> "log_income_transaction", transaction_data |-> data]
        /\ ledger' = log_income_transaction(ledger, data, clock)
        /\ ret' = Return(load_log(ledger'))
        /\ clock' = clock + 1
        /\ appended' = Append(appended, Get(data, "amount", Zero))
        /\ UNCHANGED concVars

StakeForRewards ==
    LET out == stake_for_rewards(ledger, w_abc, Float(w_a5),
                                 DEFAULT_VALIDATOR, REQUIRED, devnet, clock)
    IN  /\ Varied
        /\ call' = [op |-> "stake_for_rewards", wallet |-> w_abc]
        /\ ledger' = out.file
        /\ ret' = Return(out.result)
        /\ clock' = clock + 1
        /\ appended' = Append(appended, out.result.amount)
        /\ UNCHANGED concVars

TransferSol ==
    /\ call' = [op |-> "transfer_sol"]
    /\ ret' = Return(transfer_sol(w_abc, w_XYZ, Float(w_a0_5), REQUIRED, devnet))
    /\ UNCHANGED <<ledger, clock, appended>>
    /\ UNCHANGED concVars

QueryBalance ==
    /\ call' = [op |-> "query_balance"]
    /\ ret' = Return(query_balance(w_XYZ, devnet))
    /\ UNCHANGED <<ledger, clock, appended>>
    /\ UNCHANGED concVars

CreateTokenAccountForFees ==
    /\ call' = [op |-> "create_token_account_for_fees"]
    /\ ret' = Return(create_token_account_for_fees(w_abc, w_XYZ, REQUIRED, devnet))
    /\ UNCHANGED <<ledger, clock, appended>>
    /\ UNCHANGED concVars

GetIncomeReport ==
    /\ call' = [op |-> "get_income_report"]
    /\ ret' = Return(get_income_report(ledger))
    /\ UNCHANGED <<ledger, clock, appended>>
    /\ UNCHANGED concVars

Next ==
    \/ ProcessAIRequest
    \/ LogIncomeTransaction
    \/ StakeForRewards
    \/ TransferSol
    \/ QueryBalance
    \/ CreateTokenAccountForFees
    \/ GetIncomeReport

Spec == Init /\ [][Next]_vars

----------------------------------------------------------------------------
(* The API server: POST /api/v1/ai-prompt                                  *)

\* request.json without a 'prompt' key
NoPrompt == [prompt |-> None, credentials |-> NoCredentials]

\* request.json of the requests drawn
Bodies(forms, creds) ==
    {NoPrompt} \cup
    {[prompt |-> Prompt(f), credentials |-> c] : f \in forms, c \in creds}

\* jsonify of the result, or of the exception raised, and the file left
response(out) ==
    IF out.ret.state = "raised"
    THEN [status_code |-> 500,
          json |-> [error |-> out.ret.exc, status |-> "error"],
          file |-> out.file]
    ELSE [status_code |-> 200, json |-> out.ret.value, file |-> out.file]

\* the response (status code and JSON body) and the file left
handle_ai_prompt(file, data, now) ==
    IF data.prompt = None
    THEN [status_code |-> 400,
          json |-> [error |-> "Missing 'prompt' in request body"],
          file |-> file]
    ELSE response(process_ai_request(file, data.prompt, data.credentials,
                                     now))

HandleAIPrompt ==
    \E data \in IF Varied THEN Bodies(SystemForms, Credentials)
                          ELSE Bodies(LongRunForms, {NoCredentials}) :
        /\ Room
        /\ \E out \in {handle_ai_prompt(ledger, data, clock)} :
              /\ call' = [op |-> "handle_ai_prompt", data |-> data]
              /\ ret' = Return([status_code |-> out.status_code,
                                json |-> out.json])
              /\ ledger' = out.file
              /\ IF Len(out.file.transactions) > Len(ledger.transactions)
                 THEN /\ clock' = clock + 1
                      /\ appended' =
                            Append(appended, out.json.details.amount)
                 ELSE UNCHANGED <<clock, appended>>
        /\ UNCHANGED concVars

NextHttp == HandleAIPrompt

SpecHttp == Init /\ [][NextHttp]_vars

----------------------------------------------------------------------------
(* Concurrent callers: threads of the server, or processes, running        *)
(* log_income_transaction and get_income_report on the one ledger file     *)
(* with nothing that orders them                                           *)

\* callers that append
NumWriters == 2
\* appends stamped in one run
MaxAppends == 3

Writers == 1..NumWriters
Reader == 0
Callers == {Reader} \cup Writers

\* the record each caller appends
WriterData(w) ==
    CASE w = 1 -> [type |-> "token_fees", amount |-> Float(w_a0_5),
                   wallet |-> w_abc]
      [] w = 2 -> [type |-> "staking", amount |-> Float(w_a10),
                   wallet |-> w_bob, status |-> "initiated"]
      [] OTHER -> [status |-> "manual"]

EmptyLog == [transactions |-> <<>>, total_income |-> Zero]

\* open(DATA_PATH, 'w'): the file exists and holds no bytes
truncate(file) ==
    [exists |-> TRUE, transactions |-> <<>>, total_income |-> Zero]

\* the document written as the records now in the file plus the new one
flush_merged(file, txt, log) ==
    {[file |-> save_log(
                 [transactions |->
                     Append(file.transactions,
                            log.transactions[Len(log.transactions)]),
                  total_income |-> log.total_income]),
      text |-> "document"]}

\* json.dump and the close of the file: the whole document, smaller than
\* the buffer, is written in one piece at offset 0.  Over an empty or a
\* shorter content the file is the document; over a longer content, written
\* by another caller since this one's open, the tail of that content stays
\* behind the document.  Contents of as many records are longer or shorter
\* by their field values.
flush(file, txt, log) ==
    LET whole == [file |-> save_log(log), text |-> "document"]
        torn  == [file |-> file, text |-> "garbled"]
    IN  IF txt = "empty" \/ Len(file.transactions) < Len(log.transactions)
        THEN {whole}
        ELSE IF Len(file.transactions) > Len(log.transactions)
             THEN {torn}
             ELSE {whole, torn}

InitConc ==
    /\ ledger = Absent
    /\ text = "document"
    /\ clock = 1
    /\ appended = <<>>
    /\ call = [p \in Callers |-> [op |-> "none"]]
    /\ ret = [p \in Callers |-> Pending]
    /\ pc = [p \in Callers |-> "idle"]
    /\ local = [w \in Writers |-> EmptyLog]

\* log_income_transaction is called; DATA_PATH.exists()
LogExists(w) ==
    /\ pc[w] = "idle"
    /\ clock + Cardinality({v \in Writers : pc[v] = "load"}) <= MaxAppends
    /\ call' = [call EXCEPT ![w] = [op |-> "log_income_transaction",
                                    transaction_data |-> WriterData(w)]]
    /\ ret' = [ret EXCEPT ![w] = Pending]
    /\ IF ledger.exists
       THEN /\ pc' = [pc EXCEPT ![w] = "load"]
            /\ UNCHANGED <<local, clock>>
       ELSE /\ pc' = [pc EXCEPT ![w] = "open"]
            /\ local' = [local EXCEPT ![w] =
                            add_transaction(load_log(ledger), WriterData(w),
                                            clock)]
            /\ clock' = clock + 1
    /\ UNCHANGED <<ledger, text, appended>>

\* json.load of the file, then the record is stamped and appended in memory
LogLoad(w) ==
    /\ pc[w] = "load"
    /\ IF text = "document"
       THEN /\ pc' = [pc EXCEPT ![w] = "open"]
            /\ local' = [local EXCEPT ![w] =
                            add_transaction(load_log(ledger),
                                            call[w].transaction_data, clock)]
            /\ clock' = clock + 1
            /\ UNCHANGED ret
       ELSE /\ pc' = [pc EXCEPT ![w] = "idle"]
            /\ ret' = [ret EXCEPT ![w] = Raise("JSONDecodeError")]
            /\ UNCHANGED <<local, clock>>
    /\ UNCHANGED <<ledger, text, call, appended>>

\* open(DATA_PATH, 'w')
LogOpen(w) ==
    /\ pc[w] = "open"
    /\ pc' = [pc EXCEPT ![w] = "dump"]
    /\ ledger' = truncate(ledger)
    /\ text' = "empty"
    /\ UNCHANGED <<clock, call, ret, appended, local>>

\* json.dump, the file is closed and the call returns the log
LogDump(w) ==
    /\ pc[w] = "dump"
    /\ \E out \in flush(ledger, text, local[w]) :
          /\ ledger' = out.file
          /\ text' = out.text
    /\ pc' = [pc EXCEPT ![w] = "idle"]
    /\ ret' = [ret EXCEPT ![w] = Return(local[w])]
    /\ appended' = Append(appended,
                          Get(call[w].transaction_data, "amount", Zero))
    /\ UNCHANGED <<clock, call, local>>

\* get_income_report is called; DATA_PATH.exists()
ReportExists ==
    /\ pc[Reader] = "idle"
    /\ call' = [call EXCEPT ![Reader] = [op |-> "get_income_report"]]
    /\ IF ledger.exists
       THEN /\ pc' = [pc EXCEPT ![Reader] = "load"]
            /\ ret' = [ret EXCEPT ![Reader] = Pending]
       ELSE /\ ret' = [ret EXCEPT ![Reader] =
                          Return(get_income_report(ledger))]
            /\ UNCHANGED pc
    /\ UNCHANGED <<ledger, text, clock, appended, local>>

\* json.load of the file and the report on it
ReportLoad ==
    /\ pc[Reader] = "load"
    /\ pc' = [pc EXCEPT ![Reader] = "idle"]
    /\ ret' = [ret EXCEPT ![Reader] =
                 IF text = "document"
                 THEN Return(get_income_report(ledger))
                 ELSE Raise("JSONDecodeError")]
    /\ UNCHANGED <<ledger, text, clock, call, appended, local>>

NextConc ==
    \/ \E w \in Writers : LogExists(w)
    \/ \E w \in Writers : LogLoad(w)
    \/ \E w \in Writers : LogOpen(w)
    \/ \E w \in Writers : LogDump(w)
    \/ ReportExists
    \/ ReportLoad

SpecConc == InitConc /\ [][NextConc]_vars

----------------------------------------------------------------------------
(* Properties of parse_ai_prompt, checked under SpecParse                  *)

Min(a, b) == IF a <= b THEN a ELSE b

\* the word tokens of s: its maximal runs of \w characters
Tokens(s) ==
    {Slice(s, i, j) : <<i, j>> \in
        {p \in (1..Len(s)) \X (1..Len(s)) :
            /\ p[1] <= p[2]
            /\ \A k \in p[1]..p[2] : InClass("w", s[k])
            /\ (p[1] = 1 \/ ~InClass("w", s[p[1] - 1]))
            /\ (p[2] = Len(s) \/ ~InClass("w", s[p[2] + 1]))}}

Parsed == call.op = "parse_ai_prompt" /\ ret # Pending

Returned(operation) ==
    Parsed /\ ret.state = "returned" /\ ret.value.operation = operation

AnyMatch(pats, s) == \E i \in 1..Len(pats) : Search(pats[i], s).ok

\* the first category, in the order transfer, balance, stake,
\* income-report, with a match in s
FirstCategory(s) ==
    IF AnyMatch(transfer_patterns, s) THEN "transfer"
    ELSE IF AnyMatch(balance_patterns, s) THEN "query_balance"
    ELSE IF AnyMatch(staking_patterns, s) THEN "stake"
    ELSE IF IsIncomeReport(s) THEN "income_report"
    ELSE "unknown"

\* C2: parse_ai_prompt never raises: every prompt returns an intent.
C2_NeverRaises == Parsed => ret.state = "returned"

\* C3: for each of the three transfer phrasings with a number as amount,
\* the intent is transfer with amount = <amount>, from_wallet = A and
\* to_wallet = B, the pay form being read as (to, amount, from).
C3_TransferTriple ==
    (Parsed /\ call.form.kind \in TransferKinds
            /\ ValidFloat(call.form.amount))
    => /\ ret.state = "returned"
       /\ ret.value.operation = "transfer"
       /\ ret.value.parameters =
             [from_wallet |-> Lower(call.form.a),
              to_wallet |-> Lower(call.form.b),
              amount |-> Float(call.form.amount)]

\* C4: every prompt returns the operation of the first category with a
\* match in the lower-cased prompt, and unknown only when none matches.
C4_FirstCategoryWins ==
    Parsed => /\ ret.state = "returned"
              /\ ret.value.operation = FirstCategory(Lower(call.prompt))

\* C5: a query_balance intent's wallet_address is one complete word token
\* of the lower-cased prompt.
C5_WalletIsWholeToken ==
    Returned("query_balance")
    => ret.value.parameters.wallet_address \in Tokens(Lower(call.prompt))

\* C6: a prompt matching no transfer, balance or stake pattern is an
\* income report exactly when one of its whole tokens is a report word and
\* one is a passive word.
C6_IncomeReportByTokens ==
    (Parsed /\ ret.state = "returned"
            /\ ~AnyMatch(transfer_patterns, Lower(call.prompt))
            /\ ~AnyMatch(balance_patterns, Lower(call.prompt))
            /\ ~AnyMatch(staking_patterns, Lower(call.prompt)))
    => (ret.value.operation = "income_report"
        <=> /\ Tokens(Lower(call.prompt)) \cap report_words # {}
            /\ Tokens(Lower(call.prompt)) \cap passive_words # {})

\* C7: a stake intent's amount is the number of the staking phrase, and its
\* wallet is the word after 'from' in 'stake <amount> sol from <wallet>'
\* and None for every other staking phrase.
C7_StakeAmountAndWallet ==
    Returned("stake")
    => /\ call.form.kind \in StakeKinds
       /\ ret.value.parameters.amount = Float(call.form.amount)
       /\ ret.value.parameters.wallet =
             IF call.form.kind = "stake_from" THEN Lower(call.form.a)
             ELSE None
       /\ (ret.value.parameters.wallet # None
           <=> Search(staking_patterns[1], Lower(call.prompt)).ok)

\* 'Stake 10 SOL to generate passive income' parsed: amount 10.0, no wallet
C7_Witness ==
    /\ Returned("stake")
    /\ call.form.kind = "stake"
    /\ call.form.pre = <<>> /\ call.form.suf = <<>>
    /\ ret.value.parameters = [amount |-> Reduce(10, 1), wallet |-> None]

\* the operation the help payload announces for a phrasing
HelpOperation(f) ==
    CASE f.kind = "help_transfer" -> "transfer"
      [] f.kind = "help_balance" -> "query_balance"
      [] f.kind = "stake" -> "stake"
      [] f.kind = "help_report" -> "income_report"

\* C15: every phrasing of the help payload is supported: with a number for
\* the amount and identifiers for the wallets, 'Transfer X SOL from wallet A
\* to wallet B' parses as transfer, 'What is the balance of wallet X?' as
\* query_balance with the named wallet as wallet_address, 'Stake X SOL to
\* generate passive income' as stake and 'Show passive income report' as
\* income_report, never as unknown.
C15_HelpPhrasingsSupported ==
    (Parsed /\ call.form \in HelpForms)
    => /\ ret.state = "returned"
       /\ ret.value.operation = HelpOperation(call.form)
       /\ call.form.kind = "help_balance"
             => ret.value.parameters.wallet_address = Lower(call.form.a)

----------------------------------------------------------------------------
(* Properties of the ledger and of the calls, checked under Spec           *)

\* sum(t.get('amount', 0) for t in the first n transactions), left to right
RECURSIVE SumAmounts(_, _)
SumAmounts(transactions, n) ==
    IF n = 0 THEN Zero
    ELSE Add(SumAmounts(transactions, n - 1),
             Get(transactions[n], "amount", Zero))

\* a1 + ... + an
RECURSIVE SumSeq(_, _)
SumSeq(amounts, n) ==
    IF n = 0 THEN Zero ELSE Add(SumSeq(amounts, n - 1), amounts[n])

\* C1: from an absent ledger file, after N appends made one at a time with
\* amounts a1..aN the persisted total_income is the sum of the amounts of
\* the persisted transactions and equals a1+...+aN, and the report counts N
\* transactions.
C1_RunningSum ==
    /\ ledger.total_income
          = SumAmounts(ledger.transactions, Len(ledger.transactions))
    /\ ledger.total_income = SumSeq(appended, Len(appended))
    /\ get_income_report(ledger).transaction_count = Len(appended)
    /\ get_income_report(ledger).total_income = ledger.total_income
    /\ ledger.exists <=> appended # <<>>

\* three appends with different amounts, one of them without an amount
C1_Witness ==
    /\ Len(appended) >= 3
    /\ Cardinality({appended[i] : i \in 1..Len(appended)}) >= 3
    /\ Zero \in {appended[i] : i \in 1..Len(appended)}
    /\ ledger.total_income # Zero

StakeCall ==
    /\ call.op = "process_ai_request"
    /\ ret.state = "returned"
    /\ ret.value.operation = "stake"

\* C8: a process_ai_request call classified as stake appends exactly one
\* record: type staking, status initiated, the parsed amount, the wallet
\* passed to the stub and the configured dev vault; the count grows by one
\* and the total by that amount.
C8_StakeAppendsOne ==
    [][StakeCall' =>
         LET before == get_income_report(ledger)
             after == get_income_report(ledger')
             amount == parse_ai_prompt(call'.prompt).value.parameters.amount
             last == ledger'.transactions[Len(ledger'.transactions)]
         IN  /\ after.transaction_count = before.transaction_count + 1
             /\ after.total_income = Add(before.total_income, amount)
             /\ SubSeq(ledger'.transactions, 1, Len(ledger.transactions))
                   = ledger.transactions
             /\ [k \in DOMAIN last \ {"timestamp"} |-> last[k]]
                   = [type |-> "staking", status |-> "initiated",
                      amount |-> amount,
                      wallet |-> ret'.value.details.wallet,
                      dev_vault |-> config.devVaultWallet]
    ]_vars

\* a stake request with the credentials' wallet, on a ledger that already
\* holds records
C8_Witness ==
    /\ StakeCall
    /\ Len(ledger.transactions) >= 2
    /\ ledger.transactions[Len(ledger.transactions)].wallet = w_bob
    /\ ledger.transactions[Len(ledger.transactions)].amount = Reduce(10, 1)

ReadOnlyCall ==
    \/ call.op \in {"transfer_sol", "query_balance",
                    "create_token_account_for_fees", "get_income_report"}
    \/ /\ call.op = "process_ai_request"
       /\ ret.state = "returned"
       /\ ret.value.operation \in
             {"transfer", "query_balance", "income_report", "unknown"}

\* C9: only stake changes the ledger: a request classified transfer,
\* query_balance, income_report or unknown and the direct calls of
\* transfer_sol, query_balance, create_token_account_for_fees and
\* get_income_report leave the ledger file as it was.
C9_OnlyStakeWrites == [][ReadOnlyCall' => ledger' = ledger]_vars

\* a transfer request on a ledger that holds records
C9_Witness ==
    /\ call.op = "process_ai_request"
    /\ ret.state = "returned"
    /\ ret.value.operation = "transfer"
    /\ Len(ledger.transactions) >= 2

\* C10: whatever the ledger, an absent file included, the report has a
\* recent_transactions sequence of length min(10, transaction_count): the
\* last records appended, oldest first.
C10_RecentTransactions ==
    (call.op = "get_income_report" /\ ret.state = "returned")
    => /\ "recent_transactions" \in DOMAIN ret.value
       /\ Len(ret.value.recent_transactions)
             = Min(10, ret.value.transaction_count)
       /\ \A i \in 1..Len(ret.value.recent_transactions) :
             ret.value.recent_transactions[i]
                = ledger.transactions[Len(ledger.transactions)
                     - Len(ret.value.recent_transactions) + i]

\* the records of the ledger whose 'type' is type
OfType(type) ==
    {i \in 1..Len(ledger.transactions) :
        /\ "type" \in DOMAIN ledger.transactions[i]
        /\ ledger.transactions[i].type = type}

\* C17: for every existing ledger the strategy counts of the report
\* partition the transactions: staking counts the records of type staking,
\* token_fees those of type token_fees, other every remaining record, one
\* without 'type' included, and staking + token_fees + other ==
\* transaction_count.
C17_StrategiesPartition ==
    (call.op = "get_income_report" /\ ledger.exists)
    => /\ ret.value.strategies.staking = Cardinality(OfType("staking"))
       /\ ret.value.strategies.token_fees = Cardinality(OfType("token_fees"))
       /\ ret.value.strategies.other
             = Cardinality((1..Len(ledger.transactions))
                             \ (OfType("staking") \cup OfType("token_fees")))
       /\ ret.value.strategies.staking + ret.value.strategies.token_fees
             + ret.value.strategies.other = ret.value.transaction_count
       /\ ret.value.transaction_count = Len(ledger.transactions)

\* a report on a ledger with a staking record, a token_fees record and a
\* record without 'type'
C17_Witness ==
    /\ call.op = "get_income_report"
    /\ ledger.exists
    /\ ret.value.strategies.staking >= 1
    /\ ret.value.strategies.token_fees >= 1
    /\ \E i \in 1..Len(ledger.transactions) :
          "type" \notin DOMAIN ledger.transactions[i]
    /\ ret.value.strategies.other >= 1

----------------------------------------------------------------------------
(* The ledger as a log                                                     *)

IsPrefix(s, t) == Len(s) <= Len(t) /\ SubSeq(t, 1, Len(s)) = s

\* C11: with one operation at a time the ledger is append-only: every step
\* leaves the records it found as a prefix of the records it leaves, in the
\* same order and unaltered; an append adds exactly one record, the new one,
\* as the last element, and every other operation leaves the file as it was.
C11_AppendOnly ==
    [][/\ IsPrefix(ledger.transactions, ledger'.transactions)
       /\ IF Len(appended') > Len(appended)
          THEN /\ Len(ledger'.transactions) = Len(ledger.transactions) + 1
               /\ ledger'.transactions[Len(ledger'.transactions)].timestamp
                     = clock
               /\ Get(ledger'.transactions[Len(ledger'.transactions)],
                      "amount", Zero) = appended'[Len(appended')]
               /\ call'.op = "log_income_transaction"
                     => ledger'.transactions[Len(ledger'.transactions)]
                           = [timestamp |-> clock] @@ call'.transaction_data
          ELSE ledger' = ledger]_vars

\* an append of a record without amount on a ledger that holds a record
\* of another shape
C11_Witness ==
    /\ call.op = "log_income_transaction"
    /\ Len(ledger.transactions) >= 2
    /\ ledger.transactions[Len(ledger.transactions)]
          = [timestamp |-> clock - 1, status |-> "manual"]
    /\ "type" \in DOMAIN ledger.transactions[1]

----------------------------------------------------------------------------
(* Properties of the concurrent callers, checked under SpecConc            *)

\* C12: the ledger file is rewritten atomically: the read of a
\* get_income_report or log_income_transaction call that runs while another
\* append writes gets the complete document of before or of after the
\* write, never an empty, truncated or partly written file, so that no
\* caller's json.load fails.
C12_AtomicRewrite ==
    \A p \in Callers : ret[p].state = "raised" => ret[p].exc # "JSONDecodeError"

Last(seq) == seq[Len(seq)]

\* the timestamps of the records
Stamps(transactions) ==
    {transactions[i].timestamp : i \in 1..Len(transactions)}

\* C14: concurrent log_income_transaction calls can lose an update: the
\* call that writes installs the records it read plus its own, so that the
\* record of a call that completed after that read is gone although both
\* calls completed: the log holds fewer records than appends completed and
\* total_income misses the lost amount.
C14_LostUpdate ==
    [][\A w \in Writers :
          (pc[w] = "dump" /\ pc'[w] = "idle" /\ text' = "document")
          => /\ ledger'.transactions = local[w].transactions
             /\ ledger'.total_income = local[w].total_income
             /\ \A v \in Writers \ {w} :
                   (/\ ret[v].state = "returned"
                    /\ Last(ret[v].value.transactions).timestamp
                          \notin Stamps(local[w].transactions))
                   => /\ Last(ret[v].value.transactions).timestamp
                            \notin Stamps(ledger'.transactions)
                      /\ Len(ledger'.transactions) < Len(appended')
                      /\ Get(Last(ret[v].value.transactions), "amount", Zero)
                            # Zero
                         => ledger'.total_income
                               # SumSeq(appended', Len(appended'))]_vars

\* two appends, of 0.5 and of 10, have both completed and the log holds
\* the second one's record only
C14_Witness ==
    /\ \A p \in Callers : pc[p] = "idle"
    /\ ret[1].state = "returned" /\ ret[2].state = "returned"
    /\ Len(appended) = 2
    /\ text = "document"
    /\ Len(ledger.transactions) = 1
    /\ ledger.transactions[1].type = "staking"
    /\ ledger.total_income = Float(w_a10)
    /\ get_income_report(ledger).transaction_count = 1

\* total_income is the sum of the amounts of the records
SelfConsistent(log) ==
    log.total_income = SumAmounts(log.transactions, Len(log.transactions))

\* C16: whatever the interleaving of concurrent appends, every document
\* persisted in the ledger file is self-consistent: its total_income is the
\* sum of the amounts of the transactions it contains; so is every document
\* a caller is about to write.
C16_DocumentSelfConsistent ==
    /\ (ledger.exists /\ text = "document") => SelfConsistent(ledger)
    /\ \A w \in Writers :
          pc[w] \in {"open", "dump"} => SelfConsistent(local[w])

\* three appends have completed, one of them lost, and the document holds
\* the records of 0.5 and of 10
C16_Witness ==
    /\ Len(appended) = 3
    /\ ledger.exists /\ text = "document"
    /\ Len(ledger.transactions) = 2
    /\ ledger.total_income = Add(Float(w_a0_5), Float(w_a10))

----------------------------------------------------------------------------
(* Properties of the API server, checked under SpecHttp                    *)

\* C13: POST /api/v1/ai-prompt answers a body without 'prompt' with HTTP
\* 400 and a request whose handling raises with HTTP 500, and in both cases
\* the JSON body has 'error' together with status equal to 'error'.
C13_ErrorEnvelope ==
    call.op = "handle_ai_prompt"
    => /\ call.data.prompt = None => ret.value.status_code = 400
       /\ (call.data.prompt # None
            /\ parse_ai_prompt(call.data.prompt).state = "raised")
             => ret.value.status_code = 500
       /\ ret.value.status_code \in {400, 500}
             => /\ "error" \in DOMAIN ret.value.json
                /\ "status" \in DOMAIN ret.value.json
                /\ ret.value.json.status = "error"

====
